---- MODULE Spec2Model ----
(***************************************************************************)
(* A model of the two page scripts of the repository:                      *)
(*   static/js/lightbox.js  - the image lightbox controller                *)
(*   static/js/theme.js     - the light/dark theme controller              *)
(*                                                                         *)
(* The state is the part of the DOM and of localStorage the scripts read   *)
(* and write, the set of listeners they have registered, and a history     *)
(* record of the last dispatched event.  One action per handler; the       *)
(* browser (page load, reload, user clicks and key presses) is the         *)
(* environment that picks the next event.                                  *)
(***************************************************************************)
EXTENDS Naturals, Sequences, FiniteSets

VARIABLES
    page,        \* which elements the markup holds (fixed for a page)
    env,         \* whether localStorage reads / writes throw (fixed for a session)
    storage,     \* the value stored under "koshkina-theme" (a JS value: null or a string)
    ready,       \* the scripts whose DOMContentLoaded handler has run
    listeners,   \* the event listeners registered so far
    overlayOpen, \* overlay.classList contains "is-open"
    bigImgSrc,   \* the src set on #lightboxImage (the attribute value as assigned)
    bigImgAlt,   \* the alt set on #lightboxImage
    darkTheme,   \* body.classList contains "dark-theme"
    iconText,    \* textContent of #themeToggleIcon
    threw,       \* the last dispatched handler ended in an uncaught exception
    last,        \* history: the last event and the state it was dispatched in
    toggleRun,   \* history: the theme states before the latest toggle clicks (at most two)
    lastTagged   \* history: the js-lightbox element clicked most recently on this page

vars == <<page, env, storage, ready, listeners, overlayOpen, bigImgSrc, bigImgAlt,
          darkTheme, iconText, threw, last, toggleRun, lastTagged>>

lbVars == <<overlayOpen, bigImgSrc, bigImgAlt>>
themeVars == <<darkTheme, iconText, storage>>

----------------------------------------------------------------------------
(* JavaScript values: null, undefined and strings.                         *)

Null == [t |-> "null", v |-> ""]
Undefined == [t |-> "undefined", v |-> ""]
Str(s) == [t |-> "string", v |-> s]

\* JavaScript's ToString, as applied when a value is assigned to a DOMString attribute or
\* handed to Storage.setItem.
JsToString(x) == IF x.t = "string" THEN x.v ELSE x.t

\* ToBoolean of null, undefined or a string.
Truthy(x) == x.t = "string" /\ x.v # ""

\* a || b
Or(a, b) == IF Truthy(a) THEN a ELSE b

\* try { r } catch (e) { }  -- the exception of r is swallowed.
TryIgnore(r) == [r EXCEPT !.threw = FALSE]

----------------------------------------------------------------------------
(* The page.                                                               *)

Pages == [overlay : BOOLEAN, bigImg : BOOLEAN, closeBtn : BOOLEAN,
          toggle : BOOLEAN, icon : BOOLEAN]

Envs == [readThrows : BOOLEAN, writeThrows : BOOLEAN]

\* What may be found under the key when the page loads.
StoredValues == {Null, Str("dark"), Str("light"), Str("Dark")}

\* The elements carrying class js-lightbox: two images (one without alt text)
\* and one element that is not an image, so has no src / alt properties.
Tagged == { [kind |-> "img", src |-> "a.jpg", alt |-> "cat"],
            [kind |-> "img", src |-> "b.jpg", alt |-> ""],
            [kind |-> "div", src |-> "", alt |-> ""] }

NoElement == [kind |-> "none", src |-> "", alt |-> ""]

\* img.src and img.alt as the click handler reads them.
ElSrc(el) == IF el.kind = "img" THEN Str(el.src) ELSE Undefined
ElAlt(el) == IF el.kind = "img" THEN Str(el.alt) ELSE Undefined

\* Elements a click inside the overlay can have as its target.
Targets == {"overlay", "closeBtn", "bigImg"}

Keys == {"Escape", "Enter"}

\* The glyphs of the indicator icon (U+1F319 and U+2600 in the source).
Moon == "moon"
Sun == "sun"

\* The markup's own icon text, before any script has run.
MarkupIcon == ""

\* document.getElementById("lightboxClose"): the element or null.
closeBtn == IF page.closeBtn THEN "closeBtn" ELSE "null"

\* The observable state, as recorded in the history variables.
ThemeView == [dark |-> darkTheme, icon |-> iconText, stored |-> storage]

View == [open |-> overlayOpen, src |-> bigImgSrc, alt |-> bigImgAlt,
         theme |-> ThemeView]

Event(name, el, target, key) ==
    [ev |-> name, el |-> el, target |-> target, key |-> key, pre |-> View]

----------------------------------------------------------------------------
Init ==
    /\ page \in Pages
    /\ env \in Envs
    /\ storage \in StoredValues
    /\ ready = {}
    /\ listeners = {}
    /\ overlayOpen = FALSE
    /\ bigImgSrc = ""
    /\ bigImgAlt = ""
    /\ darkTheme = FALSE
    /\ iconText = MarkupIcon
    /\ threw = FALSE
    /\ last = [ev |-> "none", el |-> NoElement, target |-> "", key |-> "",
               pre |-> [open |-> FALSE, src |-> "", alt |-> "",
                        theme |-> [dark |-> FALSE, icon |-> MarkupIcon,
                                   stored |-> storage]]]
    /\ toggleRun = <<>>
    /\ lastTagged = NoElement

----------------------------------------------------------------------------
(* lightbox.js                                                             *)

\* Mutant: the guard written with && instead of ||.
FeatureDisabled_BothMissing == ~page.overlay /\ ~page.bigImg

\* if (!overlay || !bigImg) return;
FeatureDisabled == ~page.overlay \/ ~page.bigImg

\* Mutant: openLightbox that forgets the alt text.
openLightbox_NoAlt(src, alt) ==
    IF ~page.bigImg
    THEN /\ threw' = TRUE
         /\ UNCHANGED lbVars
    ELSE /\ bigImgSrc' = JsToString(src)
         /\ bigImgAlt' = bigImgAlt
         /\ IF page.overlay
            THEN overlayOpen' = TRUE /\ threw' = FALSE
            ELSE overlayOpen' = overlayOpen /\ threw' = TRUE

\* Mutant: openLightbox that returns at once when the overlay is already open.
openLightbox_IgnoreWhenOpen(src, alt) ==
    IF overlayOpen
    THEN /\ threw' = FALSE
         /\ UNCHANGED lbVars
    ELSE IF ~page.bigImg
    THEN /\ threw' = TRUE
         /\ UNCHANGED lbVars
    ELSE /\ bigImgSrc' = JsToString(src)
         /\ bigImgAlt' = JsToString(Or(alt, Str("")))
         /\ IF page.overlay
            THEN overlayOpen' = TRUE /\ threw' = FALSE
            ELSE overlayOpen' = overlayOpen /\ threw' = TRUE

\* function openLightbox(src, alt).  A property write on a missing element
\* is a TypeError that ends the handler at that statement.
openLightbox(src, alt) ==
    IF ~page.bigImg
    THEN /\ threw' = TRUE
         /\ UNCHANGED lbVars
    ELSE /\ bigImgSrc' = JsToString(src)
         /\ bigImgAlt' = JsToString(Or(alt, Str("")))
         /\ IF page.overlay
            THEN overlayOpen' = TRUE /\ threw' = FALSE
            ELSE overlayOpen' = overlayOpen /\ threw' = TRUE

\* Mutant: closeLightbox that leaves the source in place.
closeLightbox_KeepSrc ==
    /\ bigImgAlt' = bigImgAlt
    /\ bigImgSrc' = bigImgSrc
    /\ IF ~page.overlay
       THEN /\ threw' = TRUE
            /\ overlayOpen' = overlayOpen
       ELSE /\ overlayOpen' = FALSE
            /\ threw' = ~page.bigImg

\* function closeLightbox()
closeLightbox ==
    /\ bigImgAlt' = bigImgAlt
    /\ IF ~page.overlay
       THEN /\ threw' = TRUE
            /\ UNCHANGED <<overlayOpen, bigImgSrc>>
       ELSE /\ overlayOpen' = FALSE
            /\ IF page.bigImg
               THEN bigImgSrc' = "" /\ threw' = FALSE
               ELSE bigImgSrc' = bigImgSrc /\ threw' = TRUE

\* Mutant: only the overlay background dismisses.
IsDismissTarget_OverlayOnly(target) == target = "overlay"

\* Mutant: any click inside the overlay dismisses.
IsDismissTarget_AnyClick(target) == target \in Targets

\* e.target === overlay || e.target === closeBtn
IsDismissTarget(target) == target = "overlay" \/ target = closeBtn

\* e.key === "Escape"
IsDismissKey(key) == key = "Escape"

\* The DOMContentLoaded handler of lightbox.js: the early return, then the
\* three registrations in order; overlay.addEventListener on a missing
\* overlay is a TypeError that ends the handler before the keydown listener.
LoadLightbox ==
    /\ "lightbox" \notin ready
    /\ ready' = ready \cup {"lightbox"}
    /\ IF FeatureDisabled
       THEN /\ listeners' = listeners
            /\ threw' = FALSE
       ELSE /\ listeners' = listeners \cup {"tagged"}
                               \cup (IF page.overlay THEN {"overlay", "keydown"} ELSE {})
            /\ threw' = ~page.overlay
    /\ last' = Event("load-lightbox", NoElement, "", "")
    /\ UNCHANGED <<page, env, lbVars, themeVars, toggleRun, lastTagged>>

\* A click on an element of class js-lightbox.
ClickTagged(el) ==
    /\ IF "tagged" \in listeners
       THEN openLightbox(ElSrc(el), ElAlt(el))
       ELSE threw' = FALSE /\ UNCHANGED lbVars
    /\ last' = Event("click-tagged", el, "", "")
    /\ lastTagged' = el
    /\ UNCHANGED <<page, env, ready, listeners, themeVars, toggleRun>>

\* A click inside the overlay, on the overlay itself or on a child of it.
ClickInOverlay(target) ==
    /\ page.overlay
    /\ target = "closeBtn" => page.closeBtn
    /\ target = "bigImg" => page.bigImg
    /\ IF "overlay" \in listeners /\ IsDismissTarget(target)
       THEN closeLightbox
       ELSE threw' = FALSE /\ UNCHANGED lbVars
    /\ last' = Event("click-overlay", NoElement, target, "")
    /\ UNCHANGED <<page, env, ready, listeners, themeVars, toggleRun, lastTagged>>

\* Mutant: the Escape handler also resets body.className (say, to drop a
\* scroll lock), which takes the dark-theme class with it.
KeyDown_ResetsBodyClass(key) ==
    /\ IF "keydown" \in listeners /\ IsDismissKey(key)
       THEN closeLightbox /\ darkTheme' = FALSE
       ELSE threw' = FALSE /\ UNCHANGED lbVars /\ darkTheme' = darkTheme
    /\ last' = Event("keydown", NoElement, "", key)
    /\ UNCHANGED <<page, env, ready, listeners, iconText, storage, toggleRun,
                   lastTagged>>

\* A key press anywhere in the document.
KeyDown(key) ==
    /\ IF "keydown" \in listeners /\ IsDismissKey(key)
       THEN closeLightbox
       ELSE threw' = FALSE /\ UNCHANGED lbVars
    /\ last' = Event("keydown", NoElement, "", key)
    /\ UNCHANGED <<page, env, ready, listeners, themeVars, toggleRun, lastTagged>>

----------------------------------------------------------------------------
(* theme.js                                                                *)

\* window.localStorage.getItem("koshkina-theme")
getItem == [threw |-> env.readThrows,
            value |-> IF env.readThrows THEN Undefined ELSE storage]

\* Mutant: the write goes to another key.
setItem_OtherKey(theme) == [threw |-> env.writeThrows, stored |-> storage]

\* window.localStorage.setItem("koshkina-theme", theme)
setItem(theme) == [threw |-> env.writeThrows,
                   stored |-> IF env.writeThrows THEN storage
                              ELSE Str(JsToString(theme))]

\* Mutant: the write without its try / catch.
TryWrite_NoCatch(theme) == setItem(theme)

\* try { setItem } catch (e) { }
TryWrite(theme) == TryIgnore(setItem(theme))

\* Mutant: the two glyphs swapped.
applyTheme_SwappedGlyphs(theme) ==
    /\ darkTheme' = (theme = Str("dark"))
    /\ iconText' = IF page.icon
                   THEN (IF theme = Str("dark") THEN Sun ELSE Moon)
                   ELSE iconText
    /\ storage' = TryWrite(theme).stored
    /\ threw' = TryWrite(theme).threw

\* Mutant: the class is added for "dark" and never removed.
applyTheme_NoRemove(theme) ==
    /\ darkTheme' = (darkTheme \/ theme = Str("dark"))
    /\ iconText' = IF page.icon
                   THEN (IF theme = Str("dark") THEN Moon ELSE Sun)
                   ELSE iconText
    /\ storage' = TryWrite(theme).stored
    /\ threw' = TryWrite(theme).threw

\* Mutant: the icon is written only when the theme is dark.
applyTheme_IconOnlyOnDark(theme) ==
    /\ darkTheme' = (theme = Str("dark"))
    /\ iconText' = IF page.icon /\ theme = Str("dark") THEN Moon ELSE iconText
    /\ storage' = TryWrite(theme).stored
    /\ threw' = TryWrite(theme).threw

\* Mutant: the icon is written without the if (icon) guard; on a page
\* without the icon element that is a TypeError before the storage write.
applyTheme_NoIconGuard(theme) ==
    /\ darkTheme' = (theme = Str("dark"))
    /\ IF page.icon
       THEN /\ iconText' = (IF theme = Str("dark") THEN Moon ELSE Sun)
            /\ storage' = TryWrite(theme).stored
            /\ threw' = TryWrite(theme).threw
       ELSE /\ iconText' = iconText
            /\ storage' = storage
            /\ threw' = TRUE

\* function applyTheme(theme)
applyTheme(theme) ==
    /\ darkTheme' = (theme = Str("dark"))
    /\ iconText' = IF page.icon
                   THEN (IF theme = Str("dark") THEN Moon ELSE Sun)
                   ELSE iconText
    /\ storage' = TryWrite(theme).stored
    /\ threw' = TryWrite(theme).threw

\* let savedTheme = null; try { savedTheme = getItem } catch (e) { savedTheme = null }
savedTheme == IF getItem.threw THEN Null ELSE getItem.value

\* Mutant: every stored value but "light" counts as dark.
InitialTheme_DarkUnlessLight ==
    IF savedTheme = Str("light") \/ savedTheme = Null
    THEN Str("light")
    ELSE Str("dark")

\* The theme the load handler applies.
InitialTheme ==
    IF savedTheme = Str("dark") \/ savedTheme = Str("light")
    THEN savedTheme
    ELSE Str("light")

\* isDark ? "light" : "dark"
Flipped == IF darkTheme THEN Str("light") ELSE Str("dark")

\* The DOMContentLoaded handler of theme.js: read, apply, register the
\* toggle listener (not reached if applyTheme threw).
LoadTheme ==
    /\ "theme" \notin ready
    /\ ready' = ready \cup {"theme"}
    /\ applyTheme(InitialTheme)
    /\ listeners' = IF page.toggle /\ ~threw'
                    THEN listeners \cup {"toggle"}
                    ELSE listeners
    /\ last' = Event("load-theme", NoElement, "", "")
    /\ toggleRun' = <<>>
    /\ UNCHANGED <<page, env, lbVars, lastTagged>>

\* A click on #themeToggle.
ClickToggle ==
    /\ page.toggle
    /\ IF "toggle" \in listeners
       THEN applyTheme(Flipped)
       ELSE threw' = FALSE /\ UNCHANGED themeVars
    /\ last' = Event("click-toggle", NoElement, "", "")
    /\ toggleRun' = IF Len(toggleRun) < 2
                    THEN Append(toggleRun, ThemeView)
                    ELSE <<toggleRun[2], ThemeView>>
    /\ UNCHANGED <<page, env, ready, listeners, lbVars, lastTagged>>

----------------------------------------------------------------------------
(* The browser.                                                            *)

\* The page is reloaded: the document is rebuilt from the markup, every
\* listener is gone, localStorage stays.
Reload ==
    /\ ready = {"lightbox", "theme"}
    /\ ready' = {}
    /\ listeners' = {}
    /\ overlayOpen' = FALSE
    /\ bigImgSrc' = ""
    /\ bigImgAlt' = ""
    /\ darkTheme' = FALSE
    /\ iconText' = MarkupIcon
    /\ threw' = FALSE
    /\ last' = Event("reload", NoElement, "", "")
    /\ toggleRun' = <<>>
    /\ lastTagged' = NoElement
    /\ UNCHANGED <<page, env, storage>>

Next ==
    \/ LoadLightbox
    \/ LoadTheme
    \/ \E el \in Tagged : ClickTagged(el)
    \/ \E target \in Targets : ClickInOverlay(target)
    \/ \E key \in Keys : KeyDown(key)
    \/ ClickToggle
    \/ Reload

Spec == Init /\ [][Next]_vars

----------------------------------------------------------------------------
(* Vocabulary of the properties.                                           *)

LightboxLoaded == "lightbox" \in ready
ThemeLoaded == "theme" \in ready

AppliedTheme == IF darkTheme THEN "dark" ELSE "light"
GlyphOf(dark) == IF dark THEN Moon ELSE Sun

DismissEvent ==
    \/ last.ev = "click-overlay" /\ last.target \in {"overlay", "closeBtn"}
    \/ last.ev = "keydown" /\ last.key = "Escape"

LightboxEvent == last.ev \in {"click-tagged", "click-overlay", "keydown"}

----------------------------------------------------------------------------
\* C1: on a page that has the overlay and the image element, once the
\* lightbox script has run, a click on a tagged image with source S and alt
\* text A leaves the overlay open showing exactly S and A, whatever the
\* state before the click.
C1_ClickOpensWithSourceAndAlt ==
    (/\ last.ev = "click-tagged"
     /\ last.el.kind = "img"
     /\ page.overlay /\ page.bigImg
     /\ LightboxLoaded)
    => /\ overlayOpen
       /\ bigImgSrc = last.el.src
       /\ bigImgAlt = last.el.alt
       /\ ~threw

\* A tagged image was clicked while the overlay already showed another one
\* with a non-empty alt text, and the clicked image has no alt text.
C1_Witness ==
    /\ last.ev = "click-tagged"
    /\ last.el.kind = "img"
    /\ LightboxLoaded
    /\ last.pre.open
    /\ last.pre.src # last.el.src
    /\ last.pre.alt # ""
    /\ last.el.alt = ""
    /\ overlayOpen

\* C2: after each dismiss event (a click whose target is the overlay itself
\* or the close control, or an Escape key press) the overlay is closed and
\* the image source is empty, whether it was open or closed before.
C2_DismissCloses ==
    DismissEvent => /\ ~overlayOpen
                    /\ bigImgSrc = ""
                    /\ ~threw

\* The close control was clicked while the overlay was open.
C2_Witness ==
    /\ last.ev = "click-overlay"
    /\ last.target = "closeBtn"
    /\ last.pre.open
    /\ last.pre.src # ""
    /\ ~overlayOpen

\* C3: a click on the displayed image while the overlay is open leaves the
\* open flag, the source and the alt text as they were.
C3_ClickOnImageKeepsOpen ==
    (/\ last.ev = "click-overlay"
     /\ last.target = "bigImg"
     /\ last.pre.open)
    => /\ overlayOpen
       /\ bigImgSrc = last.pre.src
       /\ bigImgAlt = last.pre.alt

\* The displayed image was clicked while the overlay was open.
C3_Witness ==
    /\ last.ev = "click-overlay"
    /\ last.target = "bigImg"
    /\ last.pre.open
    /\ "overlay" \in listeners
    /\ overlayOpen

\* C4: the theme applied by the load handler is the stored value when the
\* read succeeds and returns exactly "dark" or "light", and "light" in every
\* other case (nothing stored, another string, a read that throws).
C4_LoadAppliesStoredOrLight ==
    last.ev = "load-theme"
    => IF /\ ~env.readThrows
          /\ last.pre.theme.stored \in {Str("dark"), Str("light")}
       THEN AppliedTheme = last.pre.theme.stored.v
       ELSE AppliedTheme = "light"

\* The page loaded with a stored value that differs from "dark" in case only.
C4_Witness ==
    /\ last.ev = "load-theme"
    /\ ~env.readThrows
    /\ last.pre.theme.stored = Str("Dark")
    /\ ~darkTheme

\* C5: a load that reads "dark" from storage puts the dark class on the body
\* and the moon glyph on the icon element.
C5_StoredDarkLoadsDarkWithMoon ==
    (/\ last.ev = "load-theme"
     /\ ~env.readThrows
     /\ last.pre.theme.stored = Str("dark"))
    => /\ darkTheme
       /\ page.icon => iconText = Moon

\* The page, which has the icon element, loaded with "dark" stored.
C5_Witness ==
    /\ last.ev = "load-theme"
    /\ ~env.readThrows
    /\ last.pre.theme.stored = Str("dark")
    /\ page.icon
    /\ darkTheme
    /\ iconText = Moon

\* C6: after two toggle clicks in a row the dark class, the icon and the
\* stored value are what they were before the first of the two.
C6_ToggleTwiceRestores ==
    Len(toggleRun) = 2 => ThemeView = toggleRun[1]

\* Two toggle clicks were handled after load, with working storage, and the
\* first of them changed the theme.
C6_Witness ==
    /\ Len(toggleRun) = 2
    /\ ThemeLoaded
    /\ "toggle" \in listeners
    /\ ~env.writeThrows
    /\ toggleRun[1].dark # toggleRun[2].dark
    /\ toggleRun[1].stored # toggleRun[2].stored

\* C7: only a toggle click changes the stored value; every other step, the
\* load handler included, leaves it as it was.
C7_OnlyToggleWritesStorage ==
    last.ev # "click-toggle" => storage = last.pre.theme.stored

\* C8: when storage reads or writes throw, no handler ends in an uncaught
\* exception; a load whose read throws applies "light"; a toggle click after
\* load flips the dark class and the icon; no step changes the stored value
\* while writes throw.
C8_StorageFailureIsSilent ==
    (env.readThrows \/ env.writeThrows)
    => /\ ~threw
       /\ (last.ev = "load-theme" /\ env.readThrows)
          => /\ ~darkTheme
             /\ page.icon => iconText = Sun
       /\ (last.ev = "click-toggle" /\ ThemeLoaded)
          => /\ darkTheme = ~last.pre.theme.dark
             /\ page.icon => iconText = GlyphOf(darkTheme)
       /\ env.writeThrows => storage = last.pre.theme.stored

\* With reads and writes both throwing, a toggle click after load turned
\* the page dark.
C8_Witness ==
    /\ env.readThrows
    /\ env.writeThrows
    /\ last.ev = "click-toggle"
    /\ ThemeLoaded
    /\ page.icon
    /\ darkTheme
    /\ ~last.pre.theme.dark

\* C9: on a page without the overlay or without the image element no
\* lightbox listener is ever registered, no lightbox event changes the
\* lightbox state, and none ends in an uncaught exception.
C9_MissingElementsDisable ==
    (~page.overlay \/ ~page.bigImg)
    => /\ listeners \cap {"tagged", "overlay", "keydown"} = {}
       /\ LightboxEvent
          => /\ ~threw
             /\ overlayOpen = last.pre.open
             /\ bigImgSrc = last.pre.src
             /\ bigImgAlt = last.pre.alt

\* A tagged image was clicked, after load, on a page that has the image
\* element but no overlay.
C9_Witness ==
    /\ ~page.overlay
    /\ page.bigImg
    /\ LightboxLoaded
    /\ last.ev = "click-tagged"
    /\ last.el.kind = "img"

\* C10: after load, while storage writes succeed, the stored value is
\* "dark" or "light", and it is "dark" exactly when the body is dark.
C10_StoredMatchesClass ==
    (ThemeLoaded /\ ~env.writeThrows)
    => /\ storage \in {Str("dark"), Str("light")}
       /\ (storage = Str("dark")) <=> darkTheme

\* A toggle click turned the page dark on a session that cannot read the
\* storage but can write it.
C10_Witness ==
    /\ ThemeLoaded
    /\ ~env.writeThrows
    /\ env.readThrows
    /\ last.ev = "click-toggle"
    /\ darkTheme
    /\ storage = Str("dark")

\* C11: after each close (a dismiss event handled by the lightbox) the
\* image's source and its alt text are both empty.
C11_CloseClearsSrcAndAlt ==
    DismissEvent => /\ bigImgSrc = ""
                    /\ bigImgAlt = ""

\* C12: no lightbox step (its load handler, a click on a tagged element, a
\* click inside the overlay, a key press) changes the dark class, the icon
\* or the stored value, and no theme step (its load handler, a toggle
\* click) changes the overlay's open flag or the image's source and alt.
C12_ControllersIndependent ==
    /\ (LightboxEvent \/ last.ev = "load-lightbox")
       => ThemeView = last.pre.theme
    /\ last.ev \in {"load-theme", "click-toggle"}
       => /\ overlayOpen = last.pre.open
          /\ bigImgSrc = last.pre.src
          /\ bigImgAlt = last.pre.alt

\* Escape closed the open overlay on a dark page.
C12_Witness ==
    /\ last.ev = "keydown"
    /\ last.key = "Escape"
    /\ "keydown" \in listeners
    /\ last.pre.open
    /\ ~overlayOpen
    /\ last.pre.theme.dark
    /\ darkTheme

\* C13: after load, on a page that has the icon element, the icon shows
\* the moon when the body is dark and the sun when it is not.
C13_IconMatchesClass ==
    (ThemeLoaded /\ page.icon) => iconText = GlyphOf(darkTheme)

\* A toggle click took a dark page back to light, and the icon to the sun.
C13_Witness ==
    /\ ThemeLoaded
    /\ page.icon
    /\ last.ev = "click-toggle"
    /\ last.pre.theme.dark
    /\ last.pre.theme.icon = Moon
    /\ ~darkTheme
    /\ iconText = Sun

\* C14: from a page whose overlay starts closed with an empty image source,
\* in every reachable state an overlay that is not open has an empty source.
C14_ClosedHasEmptySrc ==
    ~overlayOpen => bigImgSrc = ""

\* Escape closed an overlay that showed an image.
C14_Witness ==
    /\ last.ev = "keydown"
    /\ last.key = "Escape"
    /\ last.pre.open
    /\ last.pre.src # ""
    /\ ~overlayOpen
    /\ bigImgSrc = ""

\* C15: while the overlay is open it shows the tagged image clicked most
\* recently; a click on a tagged image while it is open replaces source and
\* alt and keeps it open; a key press other than Escape changes nothing.
C15_ShowsMostRecentlyClicked ==
    /\ overlayOpen
       => /\ lastTagged.kind # "none"
          /\ lastTagged.kind = "img"
             => /\ bigImgSrc = lastTagged.src
                /\ bigImgAlt = lastTagged.alt
    /\ (last.ev = "click-tagged" /\ last.el.kind = "img" /\ last.pre.open)
       => /\ overlayOpen
          /\ bigImgSrc = last.el.src
          /\ bigImgAlt = last.el.alt
    /\ (last.ev = "keydown" /\ last.key # "Escape")
       => /\ overlayOpen = last.pre.open
          /\ bigImgSrc = last.pre.src
          /\ bigImgAlt = last.pre.alt

\* Enter was pressed while the overlay showed the tagged image clicked
\* most recently.
C15_Witness ==
    /\ last.ev = "keydown"
    /\ last.key = "Enter"
    /\ "keydown" \in listeners
    /\ overlayOpen
    /\ lastTagged.kind = "img"
    /\ lastTagged.alt = "cat"
    /\ bigImgSrc = lastTagged.src

\* C16: on a page without the toggle button the load handler still applies
\* the theme (class and storage write) without an exception, and no later
\* step changes the class or the icon; on a page without the icon element
\* the load handler and every toggle click after load still set the class
\* and write the stored value, without an exception.
C16_OptionalElements ==
    /\ ~page.toggle
       => /\ "toggle" \notin listeners
          /\ last.ev = "load-theme"
             => /\ ~threw
                /\ darkTheme = (~env.readThrows /\ last.pre.theme.stored = Str("dark"))
                /\ ~env.writeThrows => storage = Str(AppliedTheme)
          /\ (ThemeLoaded /\ last.ev # "load-theme")
             => /\ darkTheme = last.pre.theme.dark
                /\ iconText = last.pre.theme.icon
    /\ ~page.icon
       => /\ iconText = MarkupIcon
          /\ last.ev = "load-theme"
             => /\ ~threw
                /\ darkTheme = (~env.readThrows /\ last.pre.theme.stored = Str("dark"))
                /\ ~env.writeThrows => storage = Str(AppliedTheme)
          /\ (last.ev = "click-toggle" /\ ThemeLoaded)
             => /\ ~threw
                /\ darkTheme = ~last.pre.theme.dark
                /\ ~env.writeThrows => storage = Str(AppliedTheme)

\* On a page without the icon element a toggle click after load turned the
\* page dark and stored "dark".
C16_Witness ==
    /\ ~page.icon
    /\ page.toggle
    /\ ThemeLoaded
    /\ last.ev = "click-toggle"
    /\ ~env.writeThrows
    /\ darkTheme
    /\ storage = Str("dark")

\* On a page without the toggle button the stored "dark" was applied at
\* load and a later key press found it unchanged.
C16_WitnessNoToggle ==
    /\ ~page.toggle
    /\ ThemeLoaded
    /\ last.ev = "keydown"
    /\ darkTheme
    /\ storage = Str("dark")

====
